---- MODULE Spec2Model ----
(***************************************************************************)
(* Desired-state reconciliation of two Azure resources, as implemented by  *)
(* library/azure_rm_appgw.py (AzureRMApplicationGateways) and              *)
(* library/azure_rm_appserviceplan.py (AzureRMAppServicePlans).            *)
(*                                                                         *)
(* One behaviour follows one module (mod) through any number of            *)
(* successive runs of exec_module against a provider that holds the        *)
(* resource.  A run is cut at its provider calls: invoke, fetch, decide,   *)
(* execute, (poll,) return.                                                *)
(*                                                                         *)
(* Reading conventions for azure_rm_appserviceplan.py, which is a preview  *)
(* file that does not compile as it stands (line 397 has an unbalanced     *)
(* parenthesis, line 335 a stray continuation): the model follows the      *)
(* statements in the order written; old_response.<field> reads the field   *)
(* <field> of the dictionary get_plan returned; get_app_service_plan (line  *)
(* 299) is the fetch get_plan of line 365; delete_webapp (line 359) has no *)
(* definition in the repository and is modelled as the single provider     *)
(* delete call, like delete_applicationgateway.                            *)
(***************************************************************************)
EXTENDS Integers, Sequences, FiniteSets, TLC

VARIABLES
    mod,           \* the module this behaviour runs: "appgw" or "plan"
    pc,            \* position of the current run of exec_module
    inp,           \* the arguments of the current invocation, as given
    kwargs,        \* the caller's kwargs as exec_module leaves them
    self,          \* the module object's fields (state, check_mode, ...)
    old_response,  \* exec_module's local old_response
    response,      \* exec_module's local response
    results,       \* self.results, plus the failure message of fail()
    calls,         \* provider calls of the current run, in order
    gw,            \* the provider's application gateway
    plan,          \* the provider's app service plan
    prev,          \* what the previous run was, relative to this one
    extSince       \* the provider changed on its own since the last return

vars == <<mod, pc, inp, kwargs, self, old_response, response, results,
          calls, gw, plan, prev, extSince>>

\* Most existence polls (gets after the delete call) followed in one run.
MaxPolls == 2

\* Most child objects in one list-valued parameter.
MaxChildren == 2

-----------------------------------------------------------------------------
(* Python values, tagged with their type: the code compares values of      *)
(* different types (a str with a dict, a str with an int).                 *)

NoneV == [t |-> "none"]

StrV(s) == [t |-> "str", v |-> s]

IntV(i) == [t |-> "int", v |-> i]

BoolV(b) == [t |-> "bool", v |-> b]

DictV(d) == [t |-> "dict", v |-> d]

ListV(s) == [t |-> "list", v |-> s]

\* get_applicationgateway and get_plan return False for "not there"
Absent == BoolV(FALSE)

\* bool(x) of Python
Truthy(x) ==
    CASE x.t = "none" -> FALSE
      [] x.t = "bool" -> x.v
      [] x.t = "str"  -> x.v # ""
      [] x.t = "int"  -> x.v # 0
      [] x.t = "dict" -> DOMAIN x.v # {}
      [] x.t = "list" -> x.v # <<>>

\* a == b of Python: values of different types are unequal
PyEq(a, b) ==
    /\ a.t = b.t
    /\ a.t # "none" => a.v = b.v

PyNe(a, b) == ~PyEq(a, b)

\* d.get(k, None) on the payload of a Dict
Get(d, k) == IF k \in DOMAIN d THEN d[k] ELSE NoneV

-----------------------------------------------------------------------------
(* The provider.  A resource is absent, present, or deleting: a delete     *)
(* call was accepted but the resource is still returned by get ("instance  *)
(* is hanging around for some time after deletion", appgw.py:1421).        *)

NoResource == [status |-> "absent", st |-> NoneV]

Exists(res) == res.status # "absent"

\* what one get call can answer: the resource, or a CloudError that is
\* "not found" or something else (denied, network, malformed)
ProviderGet(res) ==
    (IF Exists(res) THEN {[kind |-> "ok", body |-> res.st]}
                    ELSE {[kind |-> "CloudError", code |-> "NotFound"]})
    \cup {[kind |-> "CloudError", code |-> "Other"]}

\* what one create_or_update call can answer: the resolved resource at
\* once, a poller that resolves to it, or a CloudError
PutOutcomes == {"resolved", "poller", "CloudError"}

\* what one delete call can do: fail, remove the resource, or accept the
\* deletion and finish it later
DeleteOutcomes == {"CloudError", "gone", "lingering"}

AfterDelete(res, o) ==
    CASE o = "CloudError" -> res
      [] o = "gone"       -> NoResource
      [] o = "lingering"  -> IF Exists(res) THEN [res EXCEPT !.status = "deleting"]
                                            ELSE NoResource

Call(op, res) == [op |-> op, res |-> res]

GetCall(ans) == Call("get", IF ans.kind = "ok" THEN "ok" ELSE ans.code)

IsMutating(c) == c.op \in {"create_or_update", "delete"}

NoMutatingCall(cs) == \A i \in 1..Len(cs) : ~IsMutating(cs[i])

Polls(cs) == Cardinality({i \in 1..Len(cs) : cs[i].op = "get"}) - 1

-----------------------------------------------------------------------------
(* azure_rm_appgw: the translator                                          *)

GwSkuNames == {"standard_small", "waf_large", "custom_sku"}

\* the sku name renames of exec_module; any other value is left as it is
TranslateSkuName(n) ==
    CASE n = "standard_small"  -> "Standard_Small"
      [] n = "standard_medium" -> "Standard_Medium"
      [] n = "standard_large"  -> "Standard_Large"
      [] n = "waf_medium"      -> "WAF_Medium"
      [] n = "waf_large"       -> "WAF_Large"
      [] OTHER                 -> n

TranslateSkuTier_Merged(n) ==
    CASE n = "standard" -> "Standard"
      [] n = "waf"      -> "Standard"
      [] OTHER          -> n

TranslateSkuTier(n) ==
    CASE n = "standard" -> "Standard"
      [] n = "waf"      -> "WAF"
      [] OTHER          -> n

TranslatePolicyType(n) ==
    CASE n = "predefined" -> "Predefined"
      [] n = "custom"     -> "Custom"
      [] OTHER            -> n

TranslatePolicyName_NoS(n) ==
    CASE n = "app_gw_ssl_policy20150501" -> "AppGwSslPolicy20150501"
      [] n = "app_gw_ssl_policy20170401" -> "AppGwSslPolicy20170401"
      [] OTHER                           -> n

TranslatePolicyName(n) ==
    CASE n = "app_gw_ssl_policy20150501"   -> "AppGwSslPolicy20150501"
      [] n = "app_gw_ssl_policy20170401"   -> "AppGwSslPolicy20170401"
      [] n = "app_gw_ssl_policy20170401_s" -> "AppGwSslPolicy20170401S"
      [] OTHER                             -> n

TranslateMinProtocolVersion(n) ==
    CASE n = "tl_sv1_0" -> "TLSv1_0"
      [] n = "tl_sv1_1" -> "TLSv1_1"
      [] n = "tl_sv1_2" -> "TLSv1_2"
      [] OTHER          -> n

TranslatePrivateIpAllocationMethod(n) ==
    CASE n = "static"  -> "Static"
      [] n = "dynamic" -> "Dynamic"
      [] OTHER         -> n

\* the same chain in the probes, backend_http_settings_collection and
\* http_listeners branches
TranslateProtocol(n) ==
    CASE n = "http"  -> "Http"
      [] n = "https" -> "Https"
      [] OTHER       -> n

TranslateCookieBasedAffinity(n) ==
    CASE n = "enabled"  -> "Enabled"
      [] n = "disabled" -> "Disabled"
      [] OTHER          -> n

TranslateRuleType(n) ==
    CASE n = "basic"              -> "Basic"
      [] n = "path_based_routing" -> "PathBasedRouting"
      [] OTHER                    -> n

TranslateRedirectType(n) ==
    CASE n = "permanent" -> "Permanent"
      [] n = "found"     -> "Found"
      [] n = "see_other" -> "SeeOther"
      [] n = "temporary" -> "Temporary"
      [] OTHER           -> n

TranslateFirewallMode(n) ==
    CASE n = "detection"  -> "Detection"
      [] n = "prevention" -> "Prevention"
      [] OTHER            -> n

\* the if/elif chain the loop applies to each field
TranslateField(field, n) ==
    CASE field = "name" -> TranslateSkuName(n)
      [] field = "tier" -> TranslateSkuTier(n)
      [] field = "policy_type" -> TranslatePolicyType(n)
      [] field = "policy_name" -> TranslatePolicyName(n)
      [] field = "min_protocol_version" -> TranslateMinProtocolVersion(n)
      [] field = "private_ip_allocation_method" ->
            TranslatePrivateIpAllocationMethod(n)
      [] field = "protocol" -> TranslateProtocol(n)
      [] field = "cookie_based_affinity" -> TranslateCookieBasedAffinity(n)
      [] field = "rule_type" -> TranslateRuleType(n)
      [] field = "redirect_type" -> TranslateRedirectType(n)
      [] field = "firewall_mode" -> TranslateFirewallMode(n)

\* "field in ev" of Python: a key of a dict, an element of a list
In(field, ev) ==
    CASE ev.t = "dict" -> field \in DOMAIN ev.v
      [] ev.t = "list" -> \E i \in 1..Len(ev.v) : ev.v[i] = StrV(field)

\* "if field in ev: if ev[field] == ...: ev[field] = ..." on ev, which is
\* the caller's object.  A list of child dictionaries never holds the field
\* name as an element, so the branch is not entered for it.
Rename(ev, field) ==
    IF In(field, ev)
        THEN DictV([ev.v EXCEPT ![field] =
                        IF @.t = "str" THEN StrV(TranslateField(field, @.v)) ELSE @])
        ELSE ev

\* the sku branch of the kwargs loop: ev is kwargs['sku'], renamed in place
TranslateSku(ev) ==
    Rename(Rename(ev, "name"), "tier")

TranslateSslPolicy(ev) ==
    Rename(Rename(Rename(ev, "policy_type"), "policy_name"),
           "min_protocol_version")

\* one iteration of the kwargs loop for a key whose value is not None
TranslateKey(key, ev) ==
    CASE key = "sku" -> TranslateSku(ev)
      [] key = "ssl_policy" -> TranslateSslPolicy(ev)
      [] key = "frontend_ip_configurations" ->
            Rename(ev, "private_ip_allocation_method")
      [] key = "probes" -> Rename(ev, "protocol")
      [] key = "backend_http_settings_collection" ->
            Rename(Rename(ev, "protocol"), "cookie_based_affinity")
      [] key = "http_listeners" -> Rename(ev, "protocol")
      [] key = "request_routing_rules" -> Rename(ev, "rule_type")
      [] key = "redirect_configurations" -> Rename(ev, "redirect_type")
      [] key = "web_application_firewall_configuration" ->
            Rename(ev, "firewall_mode")
      [] OTHER -> ev

\* kwargs after the loop: the sku dictionary is the caller's own object
GwKwargsAfter(kw) ==
    IF kw.sku # NoneV THEN [kw EXCEPT !.sku = TranslateSku(kw.sku)] ELSE kw

\* self.parameters after the loop and the location default
GwParameters(kw) ==
    [k \in {"location"} \cup (IF kw.sku # NoneV THEN {"sku"} ELSE {}) |->
        IF k = "sku" THEN TranslateSku(kw.sku) ELSE StrV("eastus")]

GwInputs ==
    [state : {"present", "absent"},
     check_mode : BOOLEAN,
     sku : {NoneV} \cup {DictV([name |-> StrV(n)]) : n \in GwSkuNames}]

\* the gateway the provider holds after create_or_update(parameters)
GwResource(parameters) ==
    DictV([id |-> StrV("gw1-id"), name |-> StrV("gw1"),
          location |-> parameters["location"],
          sku |-> Get(parameters, "sku")])

-----------------------------------------------------------------------------
(* azure_rm_appgw: the kwargs loop on its own, over every parameter that   *)
(* has an enum field.                                                      *)

DictParams == {"sku", "ssl_policy", "web_application_firewall_configuration"}

ListParams == {"frontend_ip_configurations", "probes",
               "backend_http_settings_collection", "http_listeners",
               "request_routing_rules", "redirect_configurations"}

\* the enum fields the loop looks for under each parameter
EnumFields(key) ==
    CASE key = "sku" -> {"name", "tier"}
      [] key = "ssl_policy" ->
            {"policy_type", "policy_name", "min_protocol_version"}
      [] key = "web_application_firewall_configuration" -> {"firewall_mode"}
      [] key = "frontend_ip_configurations" -> {"private_ip_allocation_method"}
      [] key = "probes" -> {"protocol"}
      [] key = "backend_http_settings_collection" ->
            {"protocol", "cookie_based_affinity"}
      [] key = "http_listeners" -> {"protocol"}
      [] key = "request_routing_rules" -> {"rule_type"}
      [] key = "redirect_configurations" -> {"redirect_type"}

\* the choices the module documents for each enum field
DocumentedChoices(field) ==
    CASE field = "name" -> {"standard_small", "standard_medium",
                            "standard_large", "waf_medium", "waf_large"}
      [] field = "tier" -> {"standard", "waf"}
      [] field = "policy_type" -> {"predefined", "custom"}
      [] field = "policy_name" -> {"app_gw_ssl_policy20150501",
                                   "app_gw_ssl_policy20170401",
                                   "app_gw_ssl_policy20170401_s"}
      [] field = "min_protocol_version" -> {"tl_sv1_0", "tl_sv1_1", "tl_sv1_2"}
      [] field = "firewall_mode" -> {"detection", "prevention"}
      [] field = "private_ip_allocation_method" -> {"static", "dynamic"}
      [] field = "protocol" -> {"http", "https"}
      [] field = "cookie_based_affinity" -> {"enabled", "disabled"}
      [] field = "rule_type" -> {"basic", "path_based_routing"}
      [] field = "redirect_type" -> {"permanent", "found", "see_other",
                                     "temporary"}

\* the provider's token for each user-facing token: the pairs of the
\* if/elif chains of the loop, as a table
EnumMapping(field) ==
    CASE field = "name" ->
            ("standard_small" :> "Standard_Small")
            @@ ("standard_medium" :> "Standard_Medium")
            @@ ("standard_large" :> "Standard_Large")
            @@ ("waf_medium" :> "WAF_Medium")
            @@ ("waf_large" :> "WAF_Large")
      [] field = "tier" -> ("standard" :> "Standard") @@ ("waf" :> "WAF")
      [] field = "policy_type" ->
            ("predefined" :> "Predefined") @@ ("custom" :> "Custom")
      [] field = "policy_name" ->
            ("app_gw_ssl_policy20150501" :> "AppGwSslPolicy20150501")
            @@ ("app_gw_ssl_policy20170401" :> "AppGwSslPolicy20170401")
            @@ ("app_gw_ssl_policy20170401_s" :> "AppGwSslPolicy20170401S")
      [] field = "min_protocol_version" ->
            ("tl_sv1_0" :> "TLSv1_0") @@ ("tl_sv1_1" :> "TLSv1_1")
            @@ ("tl_sv1_2" :> "TLSv1_2")
      [] field = "firewall_mode" ->
            ("detection" :> "Detection") @@ ("prevention" :> "Prevention")
      [] field = "private_ip_allocation_method" ->
            ("static" :> "Static") @@ ("dynamic" :> "Dynamic")
      [] field = "protocol" -> ("http" :> "Http") @@ ("https" :> "Https")
      [] field = "cookie_based_affinity" ->
            ("enabled" :> "Enabled") @@ ("disabled" :> "Disabled")
      [] field = "rule_type" ->
            ("basic" :> "Basic") @@ ("path_based_routing" :> "PathBasedRouting")
      [] field = "redirect_type" ->
            ("permanent" :> "Permanent") @@ ("found" :> "Found")
            @@ ("see_other" :> "SeeOther") @@ ("temporary" :> "Temporary")

\* the values a caller can give an enum field: the argument spec declares
\* no choices, so a documented token or any other string
FieldValues(field) == DocumentedChoices(field) \cup {"other"}

\* the dictionaries holding any of the fields F, each with one of its values
DictsOver(F) ==
    UNION {{DictV(d) : d \in
              {e \in [S -> {StrV(v) : v \in UNION {FieldValues(f) : f \in F}}] :
                  \A f \in S : e[f].v \in FieldValues(f)}} :
           S \in SUBSET F}

\* the lists of at most MaxChildren child dictionaries
ListsOver(F) ==
    {ListV(s) : s \in UNION {[1..n -> DictsOver(F)] : n \in 0..MaxChildren}}

TrKeys == DictParams \cup ListParams

\* Desired-state parameters: every combination of the dictionary-valued
\* parameters, and each list-valued parameter beside a sku.
\* what a caller can give a parameter: nothing, or a value of its type
ParamValues(key) ==
    {NoneV} \cup (IF key \in DictParams THEN DictsOver(EnumFields(key))
                                       ELSE ListsOver(EnumFields(key)))

\* Desired-state parameters: every combination of the dictionary-valued
\* parameters, and each list-valued parameter beside a sku.
TrInputs ==
    {[k \in TrKeys |->
        CASE k = "sku" -> s
          [] k = "ssl_policy" -> p
          [] k = "web_application_firewall_configuration" -> w
          [] OTHER -> NoneV] :
        s \in ParamValues("sku"), p \in ParamValues("ssl_policy"),
        w \in ParamValues("web_application_firewall_configuration")}
    \cup UNION {{[k \in TrKeys |->
                    IF k = l THEN v ELSE IF k = "sku" THEN s ELSE NoneV] :
                 v \in ParamValues(l),
                 s \in {NoneV} \cup {DictV([name |-> StrV(n)]) : n \in GwSkuNames}} :
               l \in ListParams}

\* kwargs after the loop: the values are the caller's own objects
TrKwargsAfter(kw) ==
    [k \in TrKeys |-> IF kw[k] # NoneV THEN TranslateKey(k, kw[k]) ELSE kw[k]]

\* self.parameters after the loop
TrParameters(kw) ==
    [k \in {j \in TrKeys : kw[j] # NoneV} |-> TranslateKey(k, kw[k])]

-----------------------------------------------------------------------------
(* Runs.                                                                   *)

\* a run has returned, failed (fail_json) or died of an uncaught exception
Returned == {"idle", "done", "failed", "crashed"}

\* no run is in progress: the last one returned or was killed on its way
Ended == Returned \cup {"interrupted"}

\* the resource of the module under test
Resource == IF mod = "appgw" THEN gw ELSE plan

\* some get of the run was answered by a CloudError other than "not found"
Faulted(cs) == \E i \in 1..Len(cs) : cs[i] = Call("get", "Other")

NoPrev == [rel |-> "none", changed |-> FALSE, old |-> NoneV]

\* how the invocation kw relates to the run that has just returned: the
\* same invocation again, or the real run after its check-mode run, with
\* nothing having touched the provider in between and no deletion pending
\* The same invocation started again after a run that was killed is a
\* rerun: "rerun_clean" when no create-or-update or delete call of the
\* killed run (or of the killed runs before it) reached the provider,
\* "rerun_dirty" when one did.
Relate(kw) ==
    IF /\ pc = "done" /\ ~extSince /\ ~Faulted(calls)
       /\ gw.status # "deleting" /\ plan.status # "deleting"
    THEN IF kw = inp
         THEN [rel |-> "same", changed |-> results.changed, old |-> old_response]
         ELSE IF inp.check_mode /\ kw = [inp EXCEPT !.check_mode = FALSE]
         THEN [rel |-> "dry_then_real", changed |-> results.changed,
               old |-> old_response]
         ELSE NoPrev
    ELSE IF pc = "interrupted" /\ kw = inp
         THEN [NoPrev EXCEPT !.rel = IF prev.rel = "killed_dirty"
                                        THEN "rerun_dirty" ELSE "rerun_clean"]
         ELSE NoPrev

Fail(msg) == [results EXCEPT !.msg = msg]

\* what the format string of each failure message interpolates
MsgFields(msg) ==
    CASE msg = "Error creating the Application Gateway instance" -> {"exc"}
      [] msg = "Error deleting the Application Gateway instance" -> {"exc"}
      [] msg = "Failed to create app service plan"
            -> {"name", "resource_group", "exc"}
      [] msg = "Failed to delete app service plan"
            -> {"name", "resource_group", "exc"}
      [] OTHER -> {}

\* the operation each failure message names
MsgOperation(msg) ==
    CASE msg = "Error creating the Application Gateway instance" -> "Create"
      [] msg = "Error deleting the Application Gateway instance" -> "Delete"
      [] msg = "Failed to create app service plan" -> "Create"
      [] msg = "Failed to delete app service plan" -> "Delete"
      [] OTHER -> "none"

-----------------------------------------------------------------------------
(* azure_rm_appgw: AzureRMApplicationGateways.exec_module                  *)

\* a fetch that returns None, not False, when the get call raised
get_applicationgateway_None(ans) ==
    IF ans.kind = "ok" THEN ans.body ELSE NoneV

\* the fetch: any CloudError of the get call is logged and False returned
get_applicationgateway(ans) ==
    IF ans.kind = "ok" THEN ans.body ELSE Absent

\* a decision that updates an existing gateway whatever state is asked for
GwToDo_NeverDelete(todo, old, state) ==
    IF ~Truthy(old)
    THEN IF state = "absent" THEN todo ELSE "Create"
    ELSE "Update"

\* a decision that deletes whenever state is absent, existing or not
GwToDo_DeleteAbsent(todo, old, state) ==
    IF state = "absent" THEN "Delete"
    ELSE IF ~Truthy(old) THEN "Create" ELSE "Update"

\* the decision of exec_module; todo is self.to_do as __init__ set it
GwToDo(todo, old, state) ==
    IF ~Truthy(old)
    THEN IF state = "absent" THEN todo ELSE "Create"
    ELSE IF state = "absent" THEN "Delete"
         ELSE IF state = "present" THEN "Update" ELSE todo

\* "if self.check_mode:" of the create/update branch and of the delete
\* branch: return before the call
GwCheckModeReturn == self.check_mode

\* results['changed'] after create_update_applicationgateway returned resp
GwChanged(old, resp) ==
    IF ~Truthy(old) THEN TRUE ELSE PyNe(old, resp)

\* "if response: self.results['id'] = response['id']"
GwResults(changed, resp) ==
    [results EXCEPT !.changed = changed,
                    !.id = IF Truthy(resp) THEN resp.v.id ELSE @]

AppgwInvoke ==
    /\ mod = "appgw"
    /\ pc \in Ended
    /\ \E kw \in GwInputs :
        /\ inp' = kw
        /\ kwargs' = GwKwargsAfter(kw)
        /\ self' = [state |-> kw.state, check_mode |-> kw.check_mode,
                    parameters |-> GwParameters(kw), to_do |-> "NoAction"]
        /\ prev' = Relate(kw)
    /\ results' = [changed |-> FALSE, id |-> NoneV, msg |-> ""]
    /\ old_response' = NoneV
    /\ response' = NoneV
    /\ calls' = <<>>
    /\ extSince' = FALSE
    /\ pc' = "fetch"
    /\ UNCHANGED <<mod, gw, plan>>

AppgwFetch ==
    /\ mod = "appgw"
    /\ pc = "fetch"
    /\ \E ans \in ProviderGet(gw) :
        /\ old_response' = get_applicationgateway(ans)
        /\ calls' = Append(calls, GetCall(ans))
    /\ pc' = "decide"
    /\ UNCHANGED <<mod, inp, kwargs, self, response, results, gw, plan, prev,
                   extSince>>

AppgwDecide ==
    /\ mod = "appgw"
    /\ pc = "decide"
    /\ self' = [self EXCEPT !.to_do = GwToDo(self.to_do, old_response, self.state)]
    /\ pc' = "exec"
    /\ UNCHANGED <<mod, inp, kwargs, old_response, response, results, calls,
                   gw, plan, prev, extSince>>

AppgwCheckMode ==
    /\ mod = "appgw"
    /\ pc = "exec"
    /\ self.to_do \in {"Create", "Update", "Delete"}
    /\ GwCheckModeReturn
    /\ results' = [results EXCEPT !.changed = TRUE]
    /\ pc' = "done"
    /\ UNCHANGED <<mod, inp, kwargs, self, old_response, response, calls, gw,
                   plan, prev, extSince>>

\* create_update_applicationgateway and what exec_module does with its result
AppgwCreateUpdate ==
    /\ mod = "appgw"
    /\ pc = "exec"
    /\ self.to_do \in {"Create", "Update"}
    /\ ~GwCheckModeReturn
    /\ \E o \in PutOutcomes :
        /\ calls' = Append(calls, Call("create_or_update", o))
        /\ IF o = "CloudError"
           THEN /\ results' = Fail("Error creating the Application Gateway instance")
                /\ pc' = "failed"
                /\ UNCHANGED <<gw, response>>
           ELSE /\ gw' = [status |-> "present", st |-> GwResource(self.parameters)]
                /\ response' = gw'.st
                /\ results' = GwResults(GwChanged(old_response, response'), response')
                /\ pc' = "done"
    /\ UNCHANGED <<mod, inp, kwargs, self, old_response, plan, prev, extSince>>

\* a delete whose CloudError is logged and not failed on, as the get's is
AppgwDelete_ErrorIgnored ==
    /\ mod = "appgw"
    /\ pc = "exec"
    /\ self.to_do = "Delete"
    /\ ~GwCheckModeReturn
    /\ \E o \in DeleteOutcomes :
        /\ calls' = Append(calls, Call("delete", o))
        /\ gw' = AfterDelete(gw, o)
    /\ results' = [results EXCEPT !.changed = TRUE]
    /\ pc' = "poll"
    /\ UNCHANGED <<mod, inp, kwargs, self, old_response, response, plan, prev,
                   extSince>>

\* delete_applicationgateway
AppgwDelete ==
    /\ mod = "appgw"
    /\ pc = "exec"
    /\ self.to_do = "Delete"
    /\ ~GwCheckModeReturn
    /\ \E o \in DeleteOutcomes :
        /\ calls' = Append(calls, Call("delete", o))
        /\ gw' = AfterDelete(gw, o)
        /\ IF o = "CloudError"
           THEN /\ results' = [Fail("Error deleting the Application Gateway instance")
                                  EXCEPT !.changed = TRUE]
                /\ pc' = "failed"
           ELSE /\ results' = [results EXCEPT !.changed = TRUE]
                /\ pc' = "poll"
    /\ UNCHANGED <<mod, inp, kwargs, self, old_response, response, plan, prev,
                   extSince>>

\* a loop that gives up after its first existence fetch
AppgwPoll_Once ==
    /\ mod = "appgw"
    /\ pc = "poll"
    /\ \E ans \in ProviderGet(gw) :
        /\ calls' = Append(calls, GetCall(ans))
        /\ pc' = "done"
    /\ UNCHANGED <<mod, inp, kwargs, self, old_response, response, results, gw,
                   plan, prev, extSince>>

\* one turn of "while self.get_applicationgateway(): time.sleep(20)"; the
\* provider returns a gateway in deletion to at most MaxPolls of the turns
AppgwPoll ==
    /\ mod = "appgw"
    /\ pc = "poll"
    /\ Polls(calls) < MaxPolls \/ ~Exists(gw)
    /\ \E ans \in ProviderGet(gw) :
        /\ calls' = Append(calls, GetCall(ans))
        /\ pc' = IF Truthy(get_applicationgateway(ans)) THEN "poll" ELSE "done"
    /\ UNCHANGED <<mod, inp, kwargs, self, old_response, response, results, gw,
                   plan, prev, extSince>>

AppgwNoAction ==
    /\ mod = "appgw"
    /\ pc = "exec"
    /\ self.to_do = "NoAction"
    /\ response' = old_response
    /\ results' = GwResults(FALSE, response')
    /\ pc' = "done"
    /\ UNCHANGED <<mod, inp, kwargs, self, old_response, calls, gw, plan, prev,
                   extSince>>

\* the provider finishes a deletion it had accepted
ProviderFinishDelete ==
    /\ \/ gw.status = "deleting" /\ gw' = NoResource /\ UNCHANGED plan
       \/ plan.status = "deleting" /\ plan' = NoResource /\ UNCHANGED gw
    /\ extSince' = (extSince \/ pc \in Returned)
    /\ UNCHANGED <<mod, pc, inp, kwargs, self, old_response, response, results,
                   calls, prev>>

-----------------------------------------------------------------------------
(* azure_rm_appserviceplan: AzureRMAppServicePlans                         *)

PlanSkus == {"S1", "S2", "free"}

\* str.upper() on the sku strings of the model
Upper(s) == CASE s = "free" -> "FREE" [] s = "shared" -> "SHARED" [] OTHER -> s

_normalize_sku(sku) ==
    IF sku = NoneV THEN sku
    ELSE LET u == Upper(sku.v)
         IN  IF u = "FREE" THEN StrV("F1")
             ELSE IF u = "SHARED" THEN StrV("D1")
             ELSE StrV(u)

\* tier is a str here; get_sku_name(None) raises (None has no upper())
get_sku_name(tier) ==
    LET u == Upper(tier.v)
    IN  IF u \in {"F1", "FREE"} THEN StrV("FREE")
        ELSE IF u \in {"D1", "SHARED"} THEN StrV("SHARED")
        ELSE IF u \in {"B1", "B2", "B3", "BASIC"} THEN StrV("BASIC")
        ELSE IF u \in {"S1", "S2", "S3"} THEN StrV("STANDARD")
        ELSE IF u \in {"P1", "P2", "P3"} THEN StrV("PREMIUM")
        ELSE IF u \in {"P1V2", "P2V2", "P3V2"} THEN StrV("PREMIUMV2")
        ELSE NoneV

NoTags == [k \in {} |-> NoneV]

PlanInputs ==
    [state : {"present", "absent"},
     check_mode : BOOLEAN,
     sku : {NoneV} \cup {StrV(s) : s \in PlanSkus},
     is_linux : {BoolV(FALSE), BoolV(TRUE)},
     number_of_workers : {NoneV, StrV("2")},
     admin_site_name : {NoneV},
     tags : {NoneV, DictV([env |-> StrV("prod")])}]

\* "if kwargs[key]: setattr(self, key, kwargs[key])": a falsy argument
\* leaves the None of __init__
Given(x) == IF Truthy(x) THEN x ELSE NoneV

\* the SDK serializes SkuDescription.capacity as an integer; a plan made
\* without a capacity gets one worker
Capacity(workers) == IF workers = NoneV THEN 1 ELSE IF workers.v = "2" THEN 2 ELSE 1

\* a plan_def whose SkuDescription has tier and name swapped
PlanResource_TierAsName(sku, workers, is_linux, admin) ==
    DictV([name |-> StrV("plan1"),
           sku |-> DictV([name |-> get_sku_name(sku), tier |-> sku,
                          capacity |-> IntV(Capacity(workers))]),
           reserved |-> BoolV(Truthy(is_linux)),
           number_of_workers |-> IntV(Capacity(workers)),
           admin_site_name |-> admin,
           tags |-> DictV([k \in {} |-> NoneV])])

\* the plan the provider holds after create_or_update(plan_def), plan_def
\* being built from sku, number_of_workers, is_linux and admin_site_name
\* (plan_def carries no tags)
PlanResource(sku, workers, is_linux, admin) ==
    DictV([name |-> StrV("plan1"),
           sku |-> DictV([name |-> sku, tier |-> get_sku_name(sku),
                          capacity |-> IntV(Capacity(workers))]),
           reserved |-> BoolV(Truthy(is_linux)),
           number_of_workers |-> IntV(Capacity(workers)),
           admin_site_name |-> admin,
           tags |-> DictV(NoTags)])

\* the fetch: any CloudError of the get call is logged and False returned
\* a fetch that never sees the plan
get_plan_Blind(ans) == Absent

get_plan(ans) ==
    IF ans.kind = "ok" THEN ans.body ELSE Absent

\* AzureRMModuleBase.update_tags: the requested tags merged into the
\* existing ones, and whether that changed them
update_tags(want, tags) ==
    IF want.t = "dict"
    THEN [changed |-> \E k \in DOMAIN want.v :
                         \/ ~Truthy(Get(tags.v, k))
                         \/ tags.v[k] # want.v[k],
          tags |-> DictV([k \in DOMAIN tags.v \cup DOMAIN want.v |->
                            IF k \in DOMAIN want.v THEN want.v[k] ELSE tags.v[k]])]
    ELSE [changed |-> FALSE, tags |-> tags]

\* the sku check made in the branch of an existing plan instead
PlanMissingSku_WrongBranch(old, slf) ==
    Truthy(old) /\ slf.state = "present" /\ ~Truthy(slf.sku)

\* "if not self.sku: self.fail(...)" when the plan does not exist
PlanMissingSku(old, slf) ==
    ~Truthy(old) /\ slf.state = "present" /\ ~Truthy(slf.sku)

\* "if self.is_linux and self.is_linux != old_response.reserved: self.fail"
PlanIsLinuxChanged(old, slf) ==
    /\ Truthy(old)
    /\ slf.state = "present"
    /\ Truthy(slf.is_linux)
    /\ PyNe(slf.is_linux, old.v.reserved)

\* to_be_updated without the "check if sku changed" test
PlanToBeUpdated_NoSkuCheck(old, slf) ==
    IF ~Truthy(old)
    THEN slf.state = "present"
    ELSE /\ slf.state = "present"
         /\ \/ update_tags(slf.tags, old.v.tags).changed
            \/ /\ Truthy(slf.number_of_workers)
               /\ PyNe(slf.number_of_workers, old.v.number_of_workers)
            \/ /\ Truthy(slf.admin_site_name)
               /\ PyNe(slf.admin_site_name, old.v.admin_site_name)

\* to_be_updated without the tags test
PlanToBeUpdated_NoTagsCheck(old, slf) ==
    IF ~Truthy(old)
    THEN slf.state = "present"
    ELSE /\ slf.state = "present"
         /\ \/ Truthy(slf.sku) /\ PyNe(get_sku_name(_normalize_sku(slf.sku)), old.v.sku)
            \/ /\ Truthy(slf.number_of_workers)
               /\ PyNe(slf.number_of_workers, old.v.number_of_workers)
            \/ /\ Truthy(slf.admin_site_name)
               /\ PyNe(slf.admin_site_name, old.v.admin_site_name)

\* to_be_updated as exec_module computes it before the is_linux check
PlanToBeUpdated(old, slf) ==
    IF ~Truthy(old)
    THEN slf.state = "present"
    ELSE /\ slf.state = "present"
         /\ \/ update_tags(slf.tags, old.v.tags).changed
            \/ Truthy(slf.sku) /\ PyNe(get_sku_name(_normalize_sku(slf.sku)), old.v.sku)
            \/ /\ Truthy(slf.number_of_workers)
               /\ PyNe(slf.number_of_workers, old.v.number_of_workers)
            \/ /\ Truthy(slf.admin_site_name)
               /\ PyNe(slf.admin_site_name, old.v.admin_site_name)

\* old_response after "update_tags, old_response['tags'] = self.update_tags(...)"
PlanOldAfterTags(old, slf) ==
    IF Truthy(old) /\ slf.state = "present"
    THEN DictV([old.v EXCEPT !.tags = update_tags(slf.tags, old.v.tags).tags])
    ELSE old

\* a delete branch that does not ask whether the plan was found
PlanToDo_DeleteUnseen(old, slf) ==
    IF slf.to_be_updated
    THEN IF Truthy(old) THEN "Update" ELSE "Create"
    ELSE IF slf.state = "absent" THEN "Delete" ELSE "NoAction"

\* the branch exec_module takes after the decision
PlanToDo(old, slf) ==
    IF slf.to_be_updated
    THEN IF Truthy(old) THEN "Update" ELSE "Create"
    ELSE IF slf.state = "absent" /\ Truthy(old) THEN "Delete" ELSE "NoAction"

\* check mode honoured in the create/update branch only
PlanCheckModeReturn_UpdateOnly == self.check_mode /\ self.to_be_updated

\* "if self.check_mode: return self.results", in both branches
PlanCheckModeReturn == self.check_mode

PlanInvoke ==
    /\ mod = "plan"
    /\ pc \in Ended
    /\ \E kw \in PlanInputs :
        /\ inp' = kw
        /\ kwargs' = kw
        /\ self' = [state |-> kw.state, check_mode |-> kw.check_mode,
                    sku |-> Given(kw.sku), is_linux |-> Given(kw.is_linux),
                    number_of_workers |-> Given(kw.number_of_workers),
                    admin_site_name |-> Given(kw.admin_site_name),
                    tags |-> Given(kw.tags), to_be_updated |-> FALSE]
        /\ prev' = Relate(kw)
    /\ results' = [changed |-> FALSE, facts |-> NoneV, msg |-> ""]
    /\ old_response' = NoneV
    /\ response' = NoneV
    /\ calls' = <<>>
    /\ extSince' = FALSE
    /\ pc' = "fetch"
    /\ UNCHANGED <<mod, gw, plan>>

PlanFetch ==
    /\ mod = "plan"
    /\ pc = "fetch"
    /\ \E ans \in ProviderGet(plan) :
        /\ old_response' = get_plan(ans)
        /\ calls' = Append(calls, GetCall(ans))
    /\ pc' = "decide"
    /\ UNCHANGED <<mod, inp, kwargs, self, response, results, gw, plan, prev,
                   extSince>>

\* exec_module from "if not old_response:" to the facts assignment
PlanDecide ==
    /\ mod = "plan"
    /\ pc = "decide"
    /\ self' = [self EXCEPT !.to_be_updated = PlanToBeUpdated(old_response, self)]
    /\ old_response' = PlanOldAfterTags(old_response, self)
    /\ IF PlanMissingSku(old_response, self)
       THEN /\ results' = Fail("Please specify sku in plan when creation")
            /\ pc' = "failed"
       ELSE IF PlanIsLinuxChanged(old_response, self)
       THEN /\ results' = Fail("Operation not allowed: cannot update is_linux of app service plan.")
            /\ pc' = "failed"
       ELSE /\ results' = [results EXCEPT !.facts =
                              IF Truthy(old_response') THEN old_response' ELSE @]
            /\ pc' = "exec"
    /\ UNCHANGED <<mod, inp, kwargs, response, calls, gw, plan, prev, extSince>>

PlanCheckMode ==
    /\ mod = "plan"
    /\ pc = "exec"
    /\ PlanToDo(old_response, self) # "NoAction"
    /\ PlanCheckModeReturn
    /\ results' = [results EXCEPT !.changed = TRUE]
    /\ pc' = "done"
    /\ UNCHANGED <<mod, inp, kwargs, self, old_response, response, calls, gw,
                   plan, prev, extSince>>

\* "if to_be_updated:" with create_or_update_plan
PlanCreateOrUpdate ==
    /\ mod = "plan"
    /\ pc = "exec"
    /\ self.to_be_updated
    /\ ~PlanCheckModeReturn
    /\ IF self.sku = NoneV
       THEN \* get_sku_name(None): AttributeError, before the call
            /\ results' = [results EXCEPT !.changed = TRUE]
            /\ pc' = "crashed"
            /\ UNCHANGED <<calls, plan, response>>
       ELSE \E o \in PutOutcomes :
            /\ calls' = Append(calls, Call("create_or_update", o))
            /\ IF o = "CloudError"
               THEN /\ results' = [Fail("Failed to create app service plan")
                                      EXCEPT !.changed = TRUE]
                    /\ pc' = "failed"
                    /\ UNCHANGED <<plan, response>>
               ELSE /\ plan' = [status |-> "present",
                                st |-> PlanResource(_normalize_sku(self.sku),
                                                    self.number_of_workers,
                                                    self.is_linux,
                                                    self.admin_site_name)]
                    /\ IF o = "poller"
                       THEN /\ response' = plan'.st
                            /\ results' = [results EXCEPT !.changed = TRUE,
                                                          !.facts = response']
                            /\ pc' = "done"
                       ELSE \* response is bound only for a poller
                            /\ results' = [results EXCEPT !.changed = TRUE]
                            /\ pc' = "crashed"
                            /\ UNCHANGED response
    /\ UNCHANGED <<mod, inp, kwargs, self, old_response, gw, prev, extSince>>

\* "if self.state == 'absent' and old_response:" with delete_webapp
delete_webapp(o) ==
    /\ calls' = Append(calls, Call("delete", o))
    /\ plan' = AfterDelete(plan, o)
    /\ IF o = "CloudError"
       THEN /\ results' = [Fail("Failed to delete app service plan")
                              EXCEPT !.changed = TRUE]
            /\ pc' = "failed"
       ELSE /\ results' = [results EXCEPT !.changed = TRUE]
            /\ pc' = "done"

PlanDelete ==
    /\ mod = "plan"
    /\ pc = "exec"
    /\ PlanToDo(old_response, self) = "Delete"
    /\ ~PlanCheckModeReturn
    /\ \E o \in DeleteOutcomes : delete_webapp(o)
    /\ UNCHANGED <<mod, inp, kwargs, self, old_response, response, gw, prev,
                   extSince>>

\* neither branch taken: "return self.results"
PlanNoAction ==
    /\ mod = "plan"
    /\ pc = "exec"
    /\ PlanToDo(old_response, self) = "NoAction"
    /\ pc' = "done"
    /\ UNCHANGED <<mod, inp, kwargs, self, old_response, response, results,
                   calls, gw, plan, prev, extSince>>

-----------------------------------------------------------------------------

\* What is left of a run whose process was killed: its memory is gone, the
\* record of it keeps whether one of its create-or-update or delete calls
\* (or one of the killed runs it repeated) had reached the provider.
Killed(dirty) ==
    /\ pc' = "interrupted"
    /\ prev' = [NoPrev EXCEPT !.rel =
                   IF dirty \/ prev.rel = "rerun_dirty" THEN "killed_dirty"
                                                       ELSE "killed_clean"]
    /\ self' = IF mod = "appgw" THEN [self EXCEPT !.to_do = "NoAction"]
                                ELSE [self EXCEPT !.to_be_updated = FALSE]
    /\ kwargs' = NoneV
    /\ old_response' = NoneV
    /\ response' = NoneV
    /\ results' = [changed |-> FALSE, msg |-> ""]
    /\ calls' = <<>>
    /\ UNCHANGED <<mod, inp, extSince>>

\* the process is killed between two provider calls
Interrupt ==
    /\ pc \in {"fetch", "decide", "exec", "poll"}
    /\ Killed(~NoMutatingCall(calls))
    /\ UNCHANGED <<gw, plan>>

\* the process is killed while its create-or-update or delete call is under
\* way: the call has reached the provider, its answer is never read
InterruptInCall ==
    /\ pc = "exec"
    /\ \/ /\ mod = "appgw" /\ ~GwCheckModeReturn
          /\ self.to_do \in {"Create", "Update"}
          /\ gw' = [status |-> "present", st |-> GwResource(self.parameters)]
          /\ UNCHANGED plan
       \/ /\ mod = "appgw" /\ ~GwCheckModeReturn
          /\ self.to_do = "Delete"
          /\ \E o \in {"gone", "lingering"} : gw' = AfterDelete(gw, o)
          /\ UNCHANGED plan
       \/ /\ mod = "plan" /\ ~PlanCheckModeReturn
          /\ self.to_be_updated /\ self.sku # NoneV
          /\ plan' = [status |-> "present",
                      st |-> PlanResource(_normalize_sku(self.sku),
                                          self.number_of_workers,
                                          self.is_linux, self.admin_site_name)]
          /\ UNCHANGED gw
       \/ /\ mod = "plan" /\ ~PlanCheckModeReturn
          /\ PlanToDo(old_response, self) = "Delete"
          /\ \E o \in {"gone", "lingering"} : plan' = AfterDelete(plan, o)
          /\ UNCHANGED gw
    /\ Killed(TRUE)

InitGw == [status |-> "present",
           st |-> GwResource(GwParameters([sku |-> DictV([name |-> StrV("standard_small")])]))]

InitPlan == [status |-> "present",
             st |-> PlanResource(StrV("S1"), NoneV, NoneV, NoneV)]

\* a plan that carries the tag env=prod
InitPlanTagged ==
    [InitPlan EXCEPT !.st = DictV([InitPlan.st.v EXCEPT
                                      !.tags = DictV([env |-> StrV("prod")])])]

Init ==
    /\ mod \in {"appgw", "plan"}
    /\ pc = "idle"
    /\ gw \in (IF mod = "appgw" THEN {NoResource, InitGw} ELSE {NoResource})
    /\ plan \in (IF mod = "plan" THEN {NoResource, InitPlan, InitPlanTagged}
                                 ELSE {NoResource})
    /\ inp = NoneV
    /\ kwargs = NoneV
    /\ self = NoneV
    /\ old_response = NoneV
    /\ response = NoneV
    /\ results = [changed |-> FALSE, msg |-> ""]
    /\ calls = <<>>
    /\ prev = NoPrev
    /\ extSince = FALSE

Next ==
    \/ AppgwInvoke
    \/ AppgwFetch
    \/ AppgwDecide
    \/ AppgwCheckMode
    \/ AppgwCreateUpdate
    \/ AppgwDelete
    \/ AppgwPoll
    \/ AppgwNoAction
    \/ PlanInvoke
    \/ PlanFetch
    \/ PlanDecide
    \/ PlanCheckMode
    \/ PlanCreateOrUpdate
    \/ PlanDelete
    \/ PlanNoAction
    \/ ProviderFinishDelete
    \/ Interrupt
    \/ InterruptInCall

Spec == Init /\ [][Next]_vars

\* One module, azure_rm_appgw, with its loop scheduled: a process that is
\* not killed goes on to the next turn of its polling loop.
GwInit == Init /\ mod = "appgw"

GwNext ==
    \/ AppgwInvoke
    \/ AppgwFetch
    \/ AppgwDecide
    \/ AppgwCheckMode
    \/ AppgwCreateUpdate
    \/ AppgwDelete
    \/ AppgwPoll
    \/ AppgwNoAction
    \/ ProviderFinishDelete

GwSpec == GwInit /\ [][GwNext]_vars /\ WF_vars(AppgwPoll)

\* The kwargs loop of azure_rm_appgw on its own.
\* (the facts modules follow it)

\* exec_module is entered with the caller's kwargs
TranslatorInit ==
    /\ mod = "appgw"
    /\ pc = "args"
    /\ inp \in TrInputs
    /\ kwargs = inp
    /\ self = [state |-> "present", check_mode |-> FALSE,
               parameters |-> <<>>, to_do |-> "NoAction"]
    /\ old_response = NoneV
    /\ response = NoneV
    /\ results = [changed |-> FALSE, msg |-> ""]
    /\ calls = <<>>
    /\ gw = NoResource
    /\ plan = NoResource
    /\ prev = NoPrev
    /\ extSince = FALSE

\* the kwargs loop, start to end
TranslateKwargs ==
    /\ pc = "args"
    /\ kwargs' = TrKwargsAfter(inp)
    /\ self' = [self EXCEPT !.parameters = TrParameters(inp)]
    /\ pc' = "translated"
    /\ UNCHANGED <<mod, inp, old_response, response, results, calls, gw,
                   plan, prev, extSince>>

TranslatorNext == TranslateKwargs

TranslatorSpec == TranslatorInit /\ [][TranslatorNext]_vars

-----------------------------------------------------------------------------
(* The facts modules: azure_rm_mysqldatabase_facts (AzureRMDatabasesFacts) *)
(* and azure_rm_webapp_facts (AzureRMWebAppFacts).  They keep no resource: *)
(* each provider call is answered with one of the answers it can get.      *)

\* Most entries of info_level.
MaxLevels == 2

Levels == {"basic", "configuration", "app_settings"}

\* AzureRMModuleBase.has_tags: no filter, or every key of the filter is a
\* tag of the object
has_tags(obj_tags, tag_list) ==
    \/ ~Truthy(tag_list)
    \/ /\ obj_tags.t = "dict"
       /\ \A i \in 1..Len(tag_list.v) : tag_list.v[i].v \in DOMAIN obj_tags.v

WebappFactsInputs ==
    [name : {NoneV, StrV(""), StrV("app1")},
     tags : {NoneV, ListV(<<StrV("env")>>)},
     format : {"raw", "curated"},
     info_level : {NoneV} \cup
        {ListV(s) : s \in UNION {[1..n -> {DictV([level |-> StrV(l)]) : l \in Levels}] :
                                 n \in 0..MaxLevels}}]

MysqlFactsInputs == [database_name : {NoneV, StrV("db1")}]

\* the web apps the provider can return for a name
WebItems ==
    {[name |-> StrV("app1"), type |-> StrV("Microsoft.Web/sites"), tags |-> t] :
        t \in {NoneV, DictV([env |-> StrV("prod")])}}

\* what web_apps.get can answer
WebGetAnswers ==
    {[kind |-> "ok", body |-> it] : it \in WebItems} \cup {[kind |-> "CloudError"]}

\* what a call whose body the model does not look into can answer
Answers == {"ok", "CloudError"}

\* the result list of list_by_name for one answer of web_apps.get
list_by_name(ans, tags) ==
    IF ans.kind = "ok" /\ has_tags(ans.body.tags, tags)
        THEN <<DictV(ans.body)>>
        ELSE <<>>

\* the result list of list_by_resource_group for the items returned
list_by_resource_group(items, tags) ==
    SelectSeq(items, LAMBDA it : has_tags(it.v.tags, tags))

\* "d[key] = value" on a dict
SetItem(d, key, value) ==
    DictV([x \in DOMAIN d.v \cup {key} |-> IF x = key THEN value ELSE d.v[x]])

\* the SDK call each info level makes
LevelCall(level) ==
    IF level = "configuration" THEN "get_configuration"
                               ELSE "list_application_settings"

\* the key each info level fills in
LevelKey(level) ==
    IF level = "configuration" THEN "site_config" ELSE "app_settings"

FactsInit ==
    /\ mod \in {"mysql_facts", "webapp_facts"}
    /\ pc = "idle"
    /\ inp = NoneV
    /\ kwargs = NoneV
    /\ self = NoneV
    /\ old_response = NoneV
    /\ response = NoneV
    /\ results = [changed |-> FALSE, msg |-> ""]
    /\ calls = <<>>
    /\ gw = NoResource
    /\ plan = NoResource
    /\ prev = NoPrev
    /\ extSince = FALSE

\* a check that lets info_level through without a name
WebappFactsCheck_FormatOnly(kw) ==
    IF kw.format = "curated" THEN "Not implemented." ELSE ""

\* the two checks at the head of exec_module: the message of the one that
\* fails, "" when both pass
WebappFactsCheck(kw) ==
    IF kw.format = "curated" THEN "Not implemented."
    ELSE IF ~Truthy(kw.name) /\ Truthy(kw.info_level)
         THEN "info_level must be specified with name parameter"
    ELSE ""

\* exec_module of AzureRMWebAppFacts up to its first provider call
WebappFactsInvoke ==
    /\ mod = "webapp_facts"
    /\ pc \in Returned
    /\ \E kw \in WebappFactsInputs :
        /\ inp' = kw
        /\ kwargs' = kw
        /\ self' = [name |-> kw.name, tags |-> kw.tags, format |-> kw.format,
                    info_level |-> kw.info_level, k |-> 1]
        /\ results' = [changed |-> FALSE, msg |-> WebappFactsCheck(kw),
                       azure_webapps |-> <<>>]
        /\ pc' = IF WebappFactsCheck(kw) # "" THEN "failed"
                 ELSE IF Truthy(kw.name) THEN "list_by_name"
                 ELSE "list_by_resource_group"
    /\ calls' = <<>>
    /\ UNCHANGED <<mod, old_response, response, gw, plan, prev, extSince>>

\* "azure_webapps = self.list_by_name()" and the test of info_level
WebappListByName ==
    /\ mod = "webapp_facts"
    /\ pc = "list_by_name"
    /\ \E ans \in WebGetAnswers :
        /\ calls' = Append(calls, Call("get", ans.kind))
        /\ results' = [results EXCEPT
                          !.azure_webapps = list_by_name(ans, self.tags)]
    /\ pc' = IF Truthy(self.info_level) THEN "info_level" ELSE "done"
    /\ UNCHANGED <<mod, inp, kwargs, self, old_response, response, gw, plan,
                   prev, extSince>>

\* one turn of "for level in self.info_level": the right-hand side (the
\* SDK call) is evaluated first, then azure_webapps[0] is indexed
WebappInfoLevel ==
    /\ mod = "webapp_facts"
    /\ pc = "info_level"
    /\ LET level == self.info_level.v[self.k].v["level"].v
           last  == self.k = Len(self.info_level.v)
       IN  IF level = "basic"
           THEN /\ pc' = IF last THEN "done" ELSE "info_level"
                /\ self' = [self EXCEPT !.k = @ + 1]
                /\ UNCHANGED <<calls, results>>
           ELSE \E ans \in Answers :
                /\ calls' = Append(calls, Call(LevelCall(level), ans))
                /\ IF ans = "CloudError"
                   THEN /\ pc' = "failed"
                        /\ results' = Fail(IF level = "configuration"
                                 THEN "Error getting web app configuration"
                                 ELSE "Error getting web app app settings")
                        /\ UNCHANGED self
                   ELSE IF results.azure_webapps = <<>>
                   THEN \* IndexError: list index out of range
                        /\ pc' = "crashed"
                        /\ UNCHANGED <<self, results>>
                   ELSE /\ pc' = IF last THEN "done" ELSE "info_level"
                        /\ self' = [self EXCEPT !.k = @ + 1]
                        /\ results' = [results EXCEPT !.azure_webapps[1] =
                                         SetItem(@, LevelKey(level), StrV(level))]
    /\ UNCHANGED <<mod, inp, kwargs, old_response, response, gw, plan, prev,
                   extSince>>

\* "elif self.resource_group: azure_webapps = self.list_by_resource_group()"
WebappListByResourceGroup ==
    /\ mod = "webapp_facts"
    /\ pc = "list_by_resource_group"
    /\ \/ /\ calls' = Append(calls, Call("list_by_resource_group", "CloudError"))
          /\ results' = Fail("Error listing web apps in resource groups")
          /\ pc' = "failed"
       \/ \E items \in UNION {[1..n -> {DictV(it) : it \in WebItems}] : n \in 0..2} :
          /\ calls' = Append(calls, Call("list_by_resource_group", "ok"))
          /\ results' = [results EXCEPT
                            !.azure_webapps = list_by_resource_group(items, self.tags)]
          /\ pc' = "done"
    /\ UNCHANGED <<mod, inp, kwargs, self, old_response, response, gw, plan,
                   prev, extSince>>

\* exec_module of AzureRMDatabasesFacts up to its provider call
MysqlFactsInvoke ==
    /\ mod = "mysql_facts"
    /\ pc \in Returned
    /\ \E kw \in MysqlFactsInputs :
        /\ inp' = kw
        /\ kwargs' = kw
        /\ self' = [database_name |-> kw.database_name]
        /\ pc' = IF kw.database_name # NoneV THEN "get" ELSE "list_by_server"
    /\ results' = [changed |-> FALSE, msg |-> ""]
    /\ calls' = <<>>
    /\ UNCHANGED <<mod, old_response, response, gw, plan, prev, extSince>>

\* the databases a call can return, by name
Databases(names) == DictV([n \in names |-> DictV([name |-> StrV(n)])])

\* a get that reports a change
MysqlGet_Changed ==
    /\ mod = "mysql_facts"
    /\ pc = "get"
    /\ \E ans \in Answers :
        /\ calls' = Append(calls, Call("get", ans))
        /\ results' = [changed |-> TRUE, msg |-> results.msg,
                       databases |-> Databases({self.database_name.v})]
    /\ pc' = "done"
    /\ UNCHANGED <<mod, inp, kwargs, self, old_response, response, gw, plan,
                   prev, extSince>>

\* "self.results['databases'] = self.get()"
MysqlGet ==
    /\ mod = "mysql_facts"
    /\ pc = "get"
    /\ \E ans \in Answers :
        /\ calls' = Append(calls, Call("get", ans))
        /\ results' = [changed |-> results.changed, msg |-> results.msg,
                       databases |-> IF ans = "ok"
                                        THEN Databases({self.database_name.v})
                                        ELSE Databases({})]
    /\ pc' = "done"
    /\ UNCHANGED <<mod, inp, kwargs, self, old_response, response, gw, plan,
                   prev, extSince>>

\* "self.results['databases'] = self.list_by_server()"
MysqlListByServer ==
    /\ mod = "mysql_facts"
    /\ pc = "list_by_server"
    /\ \E ans \in Answers, names \in SUBSET {"db1", "db2"} :
        /\ ans = "CloudError" => names = {}
        /\ calls' = Append(calls, Call("list_by_server", ans))
        /\ results' = [changed |-> results.changed, msg |-> results.msg,
                       databases |-> Databases(names)]
    /\ pc' = "done"
    /\ UNCHANGED <<mod, inp, kwargs, self, old_response, response, gw, plan,
                   prev, extSince>>

FactsNext ==
    \/ WebappFactsInvoke
    \/ WebappListByName
    \/ WebappInfoLevel
    \/ WebappListByResourceGroup
    \/ MysqlFactsInvoke
    \/ MysqlGet
    \/ MysqlListByServer

FactsSpec == FactsInit /\ [][FactsNext]_vars

-----------------------------------------------------------------------------
(* Properties.                                                             *)

\* the run is past its decision step and was not killed
Decided == pc \notin {"idle", "fetch", "decide", "interrupted"}

\* the decision of the current run
Decision == IF mod = "appgw" THEN self.to_do ELSE PlanToDo(old_response, self)

\* the delete call at position i was accepted by the provider
DeleteAccepted(i) == calls[i].op = "delete" /\ calls[i].res # "CloudError"

\* C1: in both modules observed Absent with state=present decides Create,
\* observed Present with state=absent decides Delete, observed Absent with
\* state=absent decides NoAction; in azure_rm_appgw observed Present with
\* state=present decides Update.
C1_DecisionTable ==
    Decided =>
        /\ (~Truthy(old_response) /\ self.state = "present") => Decision = "Create"
        /\ (Truthy(old_response) /\ self.state = "absent") => Decision = "Delete"
        /\ (~Truthy(old_response) /\ self.state = "absent") => Decision = "NoAction"
        /\ (mod = "appgw" /\ Truthy(old_response) /\ self.state = "present")
               => Decision = "Update"

C1_Witness ==
    /\ mod = "appgw"
    /\ pc = "poll"
    /\ Truthy(old_response)
    /\ self.state = "absent"
    /\ self.to_do = "Delete"

\* C2: a run that is not in check mode and returned changed=true, repeated
\* with the same arguments and nothing else touching the provider, returns
\* changed=false.
C2_Idempotent ==
    (/\ pc = "done"
     /\ prev.rel = "same"
     /\ prev.changed
     /\ ~inp.check_mode
     /\ ~Faulted(calls))
        => ~results.changed

\* C3: no step of a run in check mode issues a create-or-update or a delete
\* call, and none changes the provider's resource.
C3_CheckModeNoMutation ==
    [][(pc' # "idle" /\ self'.check_mode /\ ~ProviderFinishDelete)
          => (gw' = gw /\ plan' = plan /\ NoMutatingCall(calls'))]_vars

C3_Witness ==
    /\ mod = "plan"
    /\ pc = "done"
    /\ self.check_mode
    /\ Decision = "Delete"
    /\ results.changed
    /\ Exists(plan)

\* C4: the real run that follows its own check-mode run, with the same
\* arguments and the same observed state, returns the changed flag the
\* check-mode run returned.
C4_CheckModeChangedIsWouldBe ==
    (/\ pc = "done"
     /\ prev.rel = "dry_then_real"
     /\ ~Faulted(calls)
     /\ prev.old = old_response)
        => results.changed = prev.changed

\* C5: a fetch whose get call answers "not found" returns Absent (False) and
\* the run goes on to its decision step; it does not fail.
C5_NotFoundIsAbsent ==
    [][(/\ pc = "fetch"
        /\ pc' \notin {"fetch", "interrupted"}
        /\ calls'[1] = Call("get", "NotFound"))
          => (pc' = "decide" /\ old_response' = Absent /\ results'.msg = "")]_vars

C5_Witness ==
    /\ pc = "decide"
    /\ calls = <<Call("get", "NotFound")>>
    /\ old_response = Absent

\* C6: a get call that fails with anything but "not found" is the last call
\* of its run, and the run has failed.
C6_FetchErrorAborts ==
    \A i \in 1..Len(calls) :
        calls[i] = Call("get", "Other") => (i = Len(calls) /\ pc = "failed")

\* C7: for an existing plan and state=present, a requested is_linux that
\* differs from the plan's reserved makes the run fail without a
\* create-or-update call.
C7_IsLinuxImmutable ==
    (/\ mod = "plan"
     /\ Decided
     /\ Truthy(old_response)
     /\ self.state = "present"
     /\ PyNe(inp.is_linux, old_response.v.reserved))
        => (pc = "failed" /\ NoMutatingCall(calls))

\* C8: when the plan does not exist, state=present and no sku is given, the
\* run fails asking for the sku, and has issued no mutating call.
C8_CreateNeedsSku ==
    (/\ mod = "plan"
     /\ Decided
     /\ ~Truthy(old_response)
     /\ self.state = "present"
     /\ ~Truthy(inp.sku))
        => (/\ pc = "failed"
            /\ results.msg = "Please specify sku in plan when creation"
            /\ NoMutatingCall(calls))

C8_Witness ==
    /\ mod = "plan"
    /\ pc = "failed"
    /\ ~Truthy(old_response)
    /\ self.state = "present"
    /\ inp.sku = NoneV
    /\ calls = <<Call("get", "NotFound")>>

\* C9: a run not in check mode that decided Delete returns changed=true only
\* after a get issued after the accepted delete call answered "not found".
C9_DeleteConfirmed ==
    (/\ pc = "done"
     /\ ~self.check_mode
     /\ Decision = "Delete"
     /\ results.changed)
        => \E i, j \in 1..Len(calls) :
              /\ i < j
              /\ DeleteAccepted(i)
              /\ calls[j] = Call("get", "NotFound")

\* C10: observed Absent with state=absent: the initial get is the only
\* provider call of the run, the decision is NoAction and the run returns
\* changed=false.
C10_NoAction ==
    (/\ Decided
     /\ ~Truthy(old_response)
     /\ self.state = "absent")
        => (/\ Len(calls) = 1
            /\ calls[1].op = "get"
            /\ Decision = "NoAction"
            /\ pc \in {"exec", "done"}
            /\ pc = "done" => ~results.changed)

C10_Witness ==
    /\ mod = "appgw"
    /\ pc = "done"
    /\ self.state = "absent"
    /\ calls = <<Call("get", "NotFound")>>
    /\ ~results.changed


\* C11: after a completed Create or Update that was not in check mode,
\* changed is true exactly when there was no prior observed state or the
\* resolved state differs from the prior observed state.
C11_ChangedIffDiffers ==
    (/\ pc = "done"
     /\ ~self.check_mode
     /\ Decision \in {"Create", "Update"})
        => (results.changed <=>
               (~Truthy(old_response) \/ PyNe(old_response, response)))


\* C12: for an existing plan and state=present, a requested sku equal to the
\* plan's current sku, with tags, number_of_workers and admin_site_name not
\* given, decides NoAction: no create-or-update call, and changed=false.
C12_SameSkuNoAction ==
    (/\ mod = "plan"
     /\ Decided
     /\ Truthy(old_response)
     /\ self.state = "present"
     /\ inp.sku # NoneV
     /\ _normalize_sku(inp.sku) = old_response.v.sku.v.name
     /\ inp.tags = NoneV
     /\ inp.number_of_workers = NoneV
     /\ inp.admin_site_name = NoneV
     /\ ~PlanIsLinuxChanged(old_response, self))
        => (/\ Decision = "NoAction"
            /\ NoMutatingCall(calls)
            /\ pc = "done" => ~results.changed)


CreatedPlan ==
    /\ mod = "plan"
    /\ pc = "done"
    /\ ~self.check_mode
    /\ ~Truthy(old_response)
    /\ self.state = "present"
    /\ inp.sku # NoneV

MergedTags(want, have) ==
    IF want = NoneV THEN have
    ELSE [k \in DOMAIN have \cup DOMAIN want.v |->
             IF k \in DOMAIN want.v THEN want.v[k] ELSE have[k]]

CallsOf(op) == {i \in 1..Len(calls) : calls[i].op = op}

\* C16: a CloudError of the create-or-update call or of the delete call is
\* the last call of its run and the run has failed (it returns no result);
\* a run issues at most one create-or-update call and at most one delete
\* call.
C16_MutatingErrorFatal ==
    /\ Cardinality(CallsOf("create_or_update")) <= 1
    /\ Cardinality(CallsOf("delete")) <= 1
    /\ \A i \in 1..Len(calls) :
          (IsMutating(calls[i]) /\ calls[i].res = "CloudError")
              => (i = Len(calls) /\ pc = "failed")

C16_Witness ==
    /\ mod = "appgw"
    /\ pc = "failed"
    /\ calls = <<Call("get", "ok"), Call("delete", "CloudError")>>
    /\ Exists(gw)


\* C17: the message of a run that failed on a provider call names the
\* resource, the operation attempted (create or update or delete, as
\* decided) and carries the provider's message.
C17_FailureMessageComplete ==
    (/\ pc = "failed"
     /\ Len(calls) > 0
     /\ calls[Len(calls)].res = "CloudError")
        => (/\ "name" \in MsgFields(results.msg)
            /\ "exc" \in MsgFields(results.msg)
            /\ MsgOperation(results.msg) = Decision)


\* C18: the state a returned result reports is one the provider returned in
\* this run: the resolved create-or-update result when there is one, else
\* the fetched state (for a plan that is still as it was fetched, the
\* provider's plan); the gateway's id is reported only from such a state.
C18_ReportedStateFromProvider ==
    pc = "done" =>
        /\ mod = "plan" =>
              /\ response # NoneV => results.facts = response
              /\ (/\ response = NoneV
                  /\ results.facts # NoneV
                  /\ plan.status = "present") => results.facts = plan.st
        /\ mod = "appgw" =>
              /\ Truthy(response) => results.id = response.v.id
              /\ results.id # NoneV => Truthy(response)


\* the value the mapping gives an enum field: the provider's token for a
\* documented choice, the value itself for anything else
Native(field, x) ==
    IF x.t = "str" /\ x.v \in DocumentedChoices(field)
        THEN StrV(EnumMapping(field)[x.v])
        ELSE x

\* C19: after the kwargs loop of azure_rm_appgw, each dictionary-valued
\* parameter that was given (sku, ssl_policy,
\* web_application_firewall_configuration) is in the request payload with
\* the same fields, every enum field holding the provider's token when the
\* caller gave a documented choice and the caller's value otherwise; the
\* loop does not fail on a value it does not know.
C19_EnumRewriteOrPassThrough ==
    pc = "translated" =>
        \A k \in DictParams : inp[k] # NoneV =>
            /\ k \in DOMAIN self.parameters
            /\ DOMAIN self.parameters[k].v = DOMAIN inp[k].v
            /\ \A f \in DOMAIN inp[k].v :
                  self.parameters[k].v[f] = Native(f, inp[k].v[f])

C19_Witness ==
    /\ pc = "translated"
    /\ inp.sku = DictV([name |-> StrV("waf_medium"), tier |-> StrV("other")])
    /\ inp.ssl_policy = DictV([policy_name |-> StrV("app_gw_ssl_policy20170401_s"),
                               min_protocol_version |-> StrV("other")])
    /\ inp.web_application_firewall_configuration =
          DictV([firewall_mode |-> StrV("prevention")])
    /\ self.parameters["sku"] =
          DictV([name |-> StrV("WAF_Medium"), tier |-> StrV("other")])
    /\ self.parameters["ssl_policy"].v["policy_name"] =
          StrV("AppGwSslPolicy20170401S")

\* C20: after the kwargs loop of azure_rm_appgw, every child object of a
\* list-valued parameter that was given is in the request payload with its
\* enum fields translated as C19 says for the dictionaries.
C20_ChildrenTranslated ==
    pc = "translated" =>
        \A k \in ListParams : inp[k] # NoneV =>
            /\ k \in DOMAIN self.parameters
            /\ Len(self.parameters[k].v) = Len(inp[k].v)
            /\ \A i \in 1..Len(inp[k].v) : \A f \in DOMAIN inp[k].v[i].v :
                  self.parameters[k].v[i].v[f] = Native(f, inp[k].v[i].v[f])


\* C21: the kwargs loop of azure_rm_appgw leaves the caller's parameters as
\* they were given: after the loop kwargs, with the dictionaries nested in
\* it, holds the values the caller passed in.
C21_TranslatorNoSideEffects ==
    pc = "translated" => kwargs = inp


\* the documented tokens of a field that the loop turns into a given
\* provider token
ReverseLookup(field, native) ==
    {u \in DocumentedChoices(field) : TranslateField(field, u) = native}

\* C22: for every enum field of azure_rm_appgw, a documented token is the
\* only documented token the loop's mapping turns into its provider token,
\* so the reverse lookup of the translated token gives back the token the
\* caller passed: for the dictionary-valued parameters from the token in the
\* payload, for the fields of list children from the mapping applied to the
\* child's token.
C22_RoundTrip ==
    pc = "translated" =>
        /\ \A k \in DictParams : inp[k] # NoneV =>
              \A f \in DOMAIN inp[k].v :
                  inp[k].v[f].v \in DocumentedChoices(f) =>
                      ReverseLookup(f, self.parameters[k].v[f].v) = {inp[k].v[f].v}
        /\ \A k \in ListParams : inp[k] # NoneV =>
              \A i \in 1..Len(inp[k].v) : \A f \in DOMAIN inp[k].v[i].v :
                  inp[k].v[i].v[f].v \in DocumentedChoices(f) =>
                      ReverseLookup(f, TranslateField(f, inp[k].v[i].v[f].v))
                          = {inp[k].v[i].v[f].v}

C22_Witness ==
    /\ pc = "translated"
    /\ inp.sku = DictV([name |-> StrV("standard_large"), tier |-> StrV("waf")])
    /\ self.parameters["sku"] =
          DictV([name |-> StrV("Standard_Large"), tier |-> StrV("WAF")])
    /\ inp.ssl_policy = DictV([policy_type |-> StrV("custom"),
                               min_protocol_version |-> StrV("tl_sv1_2")])
    /\ ReverseLookup("min_protocol_version",
                     self.parameters["ssl_policy"].v["min_protocol_version"].v)
          = {"tl_sv1_2"}


\* C23: in every run the provider's get for the reconciled resource is
\* called at most twice.
C23_AtMostTwoGets ==
    Cardinality({i \in 1..Len(calls) : calls[i].op = "get"}) <= 2


\* C24: once the create-or-update call of a run has answered without an
\* error, with the resolved resource or with a poller, the run has returned
\* and its result is the resource the provider now holds.
C24_ResolvedOrPollerAdopted ==
    (\E i \in 1..Len(calls) :
        /\ calls[i].op = "create_or_update"
        /\ calls[i].res \in {"resolved", "poller"})
        => /\ pc = "done"
           /\ mod = "appgw" => response = gw.st /\ results.id = response.v.id
           /\ mod = "plan" => response = plan.st /\ results.facts = response


\* the run is the same invocation again after a run that was killed
Rerun == prev.rel \in {"rerun_clean", "rerun_dirty"}

\* the run, by its arguments, is one that leaves the resource as it finds
\* it: a check-mode run, or a plan run with state=present and no sku
LeavesAsFound ==
    \/ self.check_mode
    \/ mod = "plan" /\ self.state = "present" /\ self.sku = NoneV

\* where a completed run leaves the provider, whatever it started from
DesiredEnd ==
    IF LeavesAsFound THEN NoMutatingCall(calls)
    ELSE IF self.state = "absent"
         THEN IF mod = "appgw" THEN gw = NoResource
                               ELSE plan.status \in {"absent", "deleting"}
    ELSE IF mod = "appgw"
         THEN gw = [status |-> "present", st |-> GwResource(self.parameters)]
         ELSE plan = [status |-> "present",
                      st |-> PlanResource(_normalize_sku(self.sku),
                                          self.number_of_workers,
                                          self.is_linux, self.admin_site_name)]

\* C25: a run that completes with every get answered leaves the provider
\* where its arguments say, from whatever state it started; this holds alike
\* for a first run and for the same invocation run again after a run that
\* was killed before or after its mutating call reached the provider, and
\* when the arguments leave the resource as found the killed run had not
\* touched it either.  So the rerun ends where one uninterrupted run ends.
C25_RerunConverges ==
    (pc = "done" /\ ~Faulted(calls)) =>
        /\ DesiredEnd
        /\ (Rerun /\ LeavesAsFound) => prev.rel = "rerun_clean"

C25_Witness ==
    /\ pc = "done"
    /\ prev.rel = "rerun_dirty"
    /\ ~Faulted(calls)
    /\ mod = "plan"
    /\ self.state = "present"
    /\ old_response # Absent
    /\ calls[Len(calls)] = Call("create_or_update", "poller")


\* C26: in the polling loop after an accepted delete of azure_rm_appgw every
\* turn is one existence fetch; a turn whose fetch returns the gateway stays
\* in the loop, however many turns came before, and a turn whose fetch does
\* not return it ends the loop and the run returns; once the provider no
\* longer holds the gateway the run does return.
C26_PollUntilAbsent ==
    /\ [][(pc = "poll" /\ calls' # calls)
            => /\ calls' = Append(calls, calls'[Len(calls')])
               /\ calls'[Len(calls')].op = "get"
               /\ calls'[Len(calls')].res = "ok" => pc' = "poll"
               /\ calls'[Len(calls')].res # "ok" => pc' = "done"]_vars
    /\ (pc = "poll" /\ ~Exists(gw)) ~> (pc = "done")

C26_Witness ==
    /\ pc = "done"
    /\ Len(calls) = 4
    /\ calls[2] = Call("delete", "lingering")
    /\ calls[3] = Call("get", "ok")
    /\ calls[4] = Call("get", "NotFound")
    /\ gw = NoResource


\* C27: in every run of either module a create-or-update call is issued
\* only with state=present, a delete call only with state=absent and the
\* resource fetched as present, never both in one run, and each only after
\* the initial get of the run has returned.
C27_MutationsMatchDecision ==
    /\ \A i \in CallsOf("create_or_update") :
          /\ self.state = "present"
          /\ i > 1 /\ calls[1].op = "get"
    /\ \A i \in CallsOf("delete") :
          /\ self.state = "absent"
          /\ Truthy(old_response)
          /\ i > 1 /\ calls[1] = Call("get", "ok")
    /\ CallsOf("create_or_update") = {} \/ CallsOf("delete") = {}

C27_Witness ==
    /\ mod = "plan"
    /\ pc = "done"
    /\ self.state = "absent"
    /\ calls = <<Call("get", "ok"), Call("delete", "gone")>>
    /\ plan = NoResource


\* the provider calls that read
ReadOps == {"get", "list_by_server", "list_by_resource_group",
            "get_configuration", "list_application_settings"}

\* C28: in every run of the facts modules, whatever the arguments and the
\* provider's answers (errors included), every provider call is a get or a
\* list, and the result has changed=False.
C28_FactsReadOnly ==
    /\ \A i \in 1..Len(calls) : calls[i].op \in ReadOps
    /\ results.changed = FALSE

C28_Witness ==
    /\ mod = "webapp_facts"
    /\ pc = "done"
    /\ calls = <<Call("get", "ok"), Call("get_configuration", "ok"),
                 Call("list_application_settings", "ok")>>
    /\ "site_config" \in DOMAIN results.azure_webapps[1].v
    /\ ~results.changed

\* C29: in azure_rm_webapp_facts a run with a name whose list_by_name found
\* nothing (the get failed, or the tags did not match) returns the empty
\* azure_webapps list; it neither fails nor dies on azure_webapps[0].
C29_EmptyListNotCrash ==
    (/\ mod = "webapp_facts"
     /\ pc \in {"done", "failed", "crashed"}
     /\ calls # <<>>
     /\ calls[1].op = "get"
     /\ results.azure_webapps = <<>>)
        => pc = "done"

====
